---- MODULE Spec2Model ----
(***************************************************************************)
(* A model of vmrk.py: process_vmrk (the marker-stream segmenter),         *)
(* process_trial, Block.filter_outliers, Block.query, collapse_blocks and  *)
(* summarize_vmrk.                                                         *)
(*                                                                         *)
(* Spec    : the program's main path.  process_vmrk reads any stream of    *)
(*           at most MaxLines stimulus lines, one line per step, and       *)
(*           summarize_vmrk is then applied to the Dataset it returned.    *)
(* SpecA   : process_vmrk on the streams of end-to-end scenario A, the     *)
(*           stream being fixed before the first line is read.             *)
(* SpecSum : Block.query, collapse_blocks and summarize_vmrk applied to    *)
(*           any Dataset of at most SumBlocks Blocks and SumTrials         *)
(*           records.                                                      *)
(*                                                                         *)
(* SpecTrials : process_vmrk on any stream of at most TrialLines stimulus   *)
(*           lines made of whole trials, and summarize_vmrk on its         *)
(*           Dataset.                                                      *)
(* SpecFn  : process_trial and Block.filter_outliers applied to any        *)
(*           window of at most MaxWin markers and any Block of at most     *)
(*           FnRecs records.                                               *)
(*                                                                         *)
(* Lines that are not stimulus lines (vmrk.py lines 336-350) are skipped   *)
(* before any variable is touched, so a stream is modelled as the          *)
(* sequence of its stimulus lines.                                         *)
(***************************************************************************)
EXTENDS Integers, Sequences, FiniteSets, TLC

\* Module constants of vmrk.py.
low == 150
high == 3000
ddof == 0

\* Bounds of the model.
MaxLines == 12      \* stimulus lines in the stream read under Spec
MaxQu == 4          \* markers held in the pending window qu under Spec
SumTrials == 4      \* records in a Dataset of SpecSum
SumBlocks == 2      \* Blocks in a Dataset of SpecSum
QueryTrials == 3    \* records in a Dataset that Block.query is called on under SpecSum
TrialLines == 21    \* stimulus lines in the stream read under SpecTrials
MaxWin == 4         \* markers in a window given to process_trial under SpecFn
FnRecs == 2         \* records in a Block of SpecFn

\* Trial(srcode, time)
Trial(srcode, time) == [srcode |-> srcode, time |-> time]

\* Stimulus codes and raw timestamps the lines of Spec are drawn from:
\* 99 fixation, 144 and 255 block boundaries, 1 and 4 stimuli, 5 and 7
\* responses.  The time of a 99, 144 or 255 line never reaches a response
\* time (such a marker can only be the first one of an assembled window),
\* so these lines are given time 0.  Stimulus lines come at 0 or 75 and
\* response lines at 0, 75 or 1600, which gives response times below 150,
\* equal to 150, and above 3000.
Codes == {99, 144, 255, 1, 4, 5, 7}
Times == {0, 75, 1600}
Lines ==
    {Trial(c, 0) : c \in {99, 144, 255}}
        \cup {Trial(c, t) : c \in {1, 4}, t \in Times \ {1600}}
        \cup {Trial(c, t) : c \in {5, 7}, t \in Times}

\* The streams of scenario A: three 99s, a 144, a 255, then 99, stimulus a,
\* response b (raw time delta d later), 144.
StimA == {1, 2, 3, 4}
RespA == {5, 6, 7, 8}
DeltaA == {10, 75, 85, 1500, 1501}
ScenarioA(a, b, d) ==
    <<Trial(99, 0), Trial(99, 10), Trial(99, 20), Trial(144, 30), Trial(255, 40),
      Trial(99, 50), Trial(a, 60), Trial(b, 60 + d), Trial(144, 2000)>>

VARIABLES
    mode,       \* "practice" | "experiment"
    n99,        \* 99 markers counted in practice mode
    n144,       \* a 144 was read while n99 = 3
    qu,         \* pending window: sequence of Trial
    data,       \* the Dataset: sequence of Blocks already pushed
    block,      \* the Block in progress
    blocknum,   \* number of blocks closed
    dblock,     \* non-boundary markers since the last closed block
    pc,         \* "read": in the for loop; "done": process_vmrk returned
    nlines,     \* stimulus lines read so far (the reader's position)
    input,      \* SpecA: the stream, fixed in advance; << >> otherwise
    gate,       \* history: progress of the stream through 99,99,99,..144,..255
    ret,        \* SpecSum: the last Block.query call, its arguments and result
    results     \* outcome of summarize_vmrk(data): a mapping or an error

vars ==
    <<mode, n99, n144, qu, data, block, blocknum, dblock, pc, nlines, input, gate,
      ret, results>>

----------------------------------------------------------------------------
\* A slip in Code.fromSRCodes: response 6 not counted as correct.
fromSRCodes_only5(a, b) ==
    [side |-> IF a \in {1, 2} THEN "left" ELSE "right",
     congruent |-> (a \in {1, 3}),
     correct |-> (b = 5)]

\* Code.fromSRCodes
fromSRCodes(a, b) ==
    [side |-> IF a \in {1, 2} THEN "left" ELSE "right",
     congruent |-> (a \in {1, 3}),
     correct |-> (b \in {5, 6})]

\* Block(): the three parallel lists Code, Rtim, Ntri.
NewBlock == [Code |-> << >>, Rtim |-> << >>, Ntri |-> << >>]

\* [xs[i] for i in ii]
Pick(xs, ii) == [k \in 1..Len(ii) |-> xs[ii[k]]]

\* ii = [i for i, rt in enumerate(Rtim) if (rt >= low) and (rt <= high)]
RECURSIVE KeepIdx(_, _, _, _)
KeepIdx(rtim, lo, hi, i) ==
    IF i > Len(rtim) THEN << >>
    ELSE IF rtim[i] >= lo /\ rtim[i] <= hi
         THEN <<i>> \o KeepIdx(rtim, lo, hi, i + 1)
         ELSE KeepIdx(rtim, lo, hi, i + 1)

\* A slip in Block.filter_outliers: the upper bound is not applied.
filter_outliers_nohigh(b, lo, hi) ==
    LET ii == SelectSeq([i \in 1..Len(b.Rtim) |-> i], LAMBDA i : b.Rtim[i] >= lo)
    IN [Code |-> Pick(b.Code, ii), Rtim |-> Pick(b.Rtim, ii), Ntri |-> Pick(b.Ntri, ii)]

\* A different Block.filter_outliers: records are removed from the lists
\* while the loop runs over them, so the record after a removed one is
\* never tested.
RECURSIVE SkipIdx(_, _, _, _)
SkipIdx(rtim, lo, hi, i) ==
    IF i > Len(rtim) THEN << >>
    ELSE IF rtim[i] >= lo /\ rtim[i] <= hi
         THEN <<i>> \o SkipIdx(rtim, lo, hi, i + 1)
         ELSE IF i + 1 > Len(rtim) THEN << >>
              ELSE <<i + 1>> \o SkipIdx(rtim, lo, hi, i + 2)
filter_outliers_in_place(b, lo, hi) ==
    LET ii == SkipIdx(b.Rtim, lo, hi, 1)
    IN [Code |-> Pick(b.Code, ii), Rtim |-> Pick(b.Rtim, ii), Ntri |-> Pick(b.Ntri, ii)]

\* A slip in Block.filter_outliers: the lower bound is not applied.
filter_outliers_nolow(b, lo, hi) ==
    LET ii == SelectSeq([i \in 1..Len(b.Rtim) |-> i], LAMBDA i : b.Rtim[i] <= hi)
    IN [Code |-> Pick(b.Code, ii), Rtim |-> Pick(b.Rtim, ii), Ntri |-> Pick(b.Ntri, ii)]

\* Block.filter_outliers
filter_outliers(b, lo, hi) ==
    LET ii == KeepIdx(b.Rtim, lo, hi, 1)
    IN [Code |-> Pick(b.Code, ii), Rtim |-> Pick(b.Rtim, ii), Ntri |-> Pick(b.Ntri, ii)]

\* A different response time: a negative difference is clamped to 0.
ResponseTime_clamped(q) ==
    IF q[3].time < q[2].time THEN 0 ELSE 2 * (q[3].time - q[2].time)

\* process_trial, line 149: rt = 2 * (qu[2].time - qu[1].time)
ResponseTime(q) == 2 * (q[3].time - q[2].time)

\* A slip in process_trial: the first marker's code is not checked.
process_trial_any_first(q, b) ==
    IF Len(q) < 3
    THEN b
    ELSE LET code == fromSRCodes(q[2].srcode, q[3].srcode)
             rt == ResponseTime(q)
         IN filter_outliers([Code |-> Append(b.Code, code),
                             Rtim |-> Append(b.Rtim, rt),
                             Ntri |-> Append(b.Ntri, Len(q))], low, high)

\* process_trial(qu, block): the Block after the call.
process_trial(q, b) ==
    IF Len(q) < 3 \/ q[1].srcode # 99
    THEN b
    ELSE LET code == fromSRCodes(q[2].srcode, q[3].srcode)
             rt == ResponseTime(q)
         IN filter_outliers([Code |-> Append(b.Code, code),
                             Rtim |-> Append(b.Rtim, rt),
                             Ntri |-> Append(b.Ntri, Len(q))], low, high)

----------------------------------------------------------------------------
\* A keyword argument that defaults to None: None, or Some(value).
None == << >>
Some(v) == <<v>>

\* Block.query, the loop: the indices j (from 1, Python's j + 1) of the
\* records whose response time is appended to ret.
RECURSIVE QueryIdx(_, _, _, _, _, _)
QueryIdx(b, side, congruent, correct, lastcorrect, j) ==
    IF j > Len(b.Code) \/ j > Len(b.Rtim) THEN << >>
    ELSE LET c == b.Code[j]
             skip == \/ (side # None /\ c.side # side[1])
                     \/ (congruent # None /\ c.congruent # congruent[1])
                     \/ (correct # None /\ c.correct # correct[1])
                     \/ (lastcorrect # None /\ j > 1 /\ b.Code[j - 1].correct # lastcorrect[1])
             rest == QueryIdx(b, side, congruent, correct, lastcorrect, j + 1)
         IN IF skip THEN rest ELSE <<j>> \o rest

\* A different Block.query: with lastcorrect given, the first record is
\* left out as well.
query_without_first(b, side, congruent, correct, lastcorrect) ==
    Pick(b.Rtim, SelectSeq(QueryIdx(b, side, congruent, correct, lastcorrect, 1),
                           LAMBDA j : lastcorrect = None \/ j > 1))

\* A slip in Block.query: the lastcorrect test reads the record's own code
\* (Code[j] for Code[j-1]).
query_own_code(b, side, congruent, correct, lastcorrect) ==
    Pick(b.Rtim,
         SelectSeq([j \in 1..Len(b.Rtim) |-> j],
                   LAMBDA j : /\ (side = None \/ b.Code[j].side = side[1])
                              /\ (congruent = None \/ b.Code[j].congruent = congruent[1])
                              /\ (correct = None \/ b.Code[j].correct = correct[1])
                              /\ (lastcorrect = None \/ j = 1
                                    \/ b.Code[j].correct = lastcorrect[1])))

\* Block.query
query(b, side, congruent, correct, lastcorrect) ==
    Pick(b.Rtim, QueryIdx(b, side, congruent, correct, lastcorrect, 1))

\* collapse_blocks, the loop from block k on.
RECURSIVE Extend(_, _, _)
Extend(blk, d, k) ==
    IF k > Len(d) THEN blk
    ELSE Extend([Code |-> blk.Code \o d[k].Code,
                 Rtim |-> blk.Rtim \o d[k].Rtim,
                 Ntri |-> blk.Ntri \o d[k].Ntri], d, k + 1)

\* A slip in collapse_blocks: the first Block is not visited.
collapse_blocks_from_second(d) == Extend(NewBlock, d, 2)

\* collapse_blocks
collapse_blocks(d) == Extend(NewBlock, d, 1)

\* Python's sum over a list of numbers.
RECURSIVE Sum(_)
Sum(xs) == IF xs = << >> THEN 0 ELSE xs[1] + Sum(Tail(xs))

\* A quotient a / b of two integers, kept exact and unevaluated (Python 3
\* gives the float, Python 2 its floor).
Ratio(a, b) == [num |-> a, den |-> b]
\* numpy's nan
NaN == [nan |-> TRUE]
IsNaN(v) == "nan" \in DOMAIN v
\* The exception Python raises for a / 0.
ZeroDivisionError == [raise |-> "ZeroDivisionError"]
IsRaise(v) == "raise" \in DOMAIN v

\* A different division: a zero denominator gives nan, as numpy's does.
PyDiv_nan(a, b) == IF b = 0 THEN NaN ELSE Ratio(a, b)

\* a / b on Python ints.
PyDiv(a, b) == IF b = 0 THEN ZeroDivisionError ELSE Ratio(a, b)

\* x - y on two quotients.
Minus(x, y) == Ratio(x.num * y.den - y.num * x.den, x.den * y.den)

\* np.mean: nan (and a RuntimeWarning, no exception) on an empty list.
np_mean(xs) == IF Len(xs) = 0 THEN NaN ELSE Ratio(Sum(xs), Len(xs))

\* np.std(xs, ddof=dd): the square root of the quotient held in "sqrt";
\* nan (and a RuntimeWarning, no exception) on an empty list.
np_std(xs, dd) ==
    IF Len(xs) = 0 THEN NaN
    ELSE LET n == Len(xs)
             sq == [i \in 1..n |-> xs[i] * xs[i]]
         IN [sqrt |-> Ratio(n * Sum(sq) - Sum(xs) * Sum(xs), n * (n - dd))]

\* [x for k, x in zip(Code, Rtim) if k.correct == v]
ByCorrect(b, v) ==
    Pick(b.Rtim, SelectSeq([i \in 1..Len(b.Rtim) |-> i], LAMBDA i : b.Code[i].correct = v))

\* len of a comprehension / np.sum of a comparison: how many x satisfy P.
Count(xs, P(_)) == Len(SelectSeq(xs, P))

\* A slip in the post-X counts: the first query result is counted too.
PostCount_all(v) == Sum([k \in 1..Len(v) |-> Len(v[k])])

\* sum([max(0, len(x) - 1) for x in v])
PostCount(v) == Sum([k \in 1..Len(v) |-> IF Len(v[k]) - 1 > 0 THEN Len(v[k]) - 1 ELSE 0])

\* sum([sum(x[1:]) for x in v])
PostSum(v) == Sum([k \in 1..Len(v) |-> IF v[k] = << >> THEN 0 ELSE Sum(Tail(v[k]))])

\* A slip in the post-X means: sum(x) for sum(x[1:]).
PostMean_with_first(n, v) ==
    IF n > 0 THEN PyDiv(Sum([k \in 1..Len(v) |-> Sum(v[k])]), n) ELSE Ratio(0, 1)

\* if n > 0: sum([sum(x[1:]) for x in v]) / n  else: 0.
PostMean(n, v) == IF n > 0 THEN PyDiv(PostSum(v), n) ELSE Ratio(0, 1)

\* [b.query(correct=.., lastcorrect=..) for b in data]
PerBlock(d, correct, lastcorrect) ==
    [k \in 1..Len(d) |-> query(d[k], None, None, correct, lastcorrect)]

\* A different summarize_vmrk: the post error accuracy does not raise.
RaisingKeys_without_faccpe == <<"facc", "fcacc", "fiacc", "faccpc">>

\* The statements of summarize_vmrk that can raise, in program order.
RaisingKeys == <<"facc", "fcacc", "fiacc", "faccpc", "faccpe">>

\* summarize_vmrk(filename, data): [status |-> "return", results |-> the
\* mapping] or [status |-> "raise", key |-> the statistic whose statement
\* raised].  The key "sid" (the file name's stem) is left out.
summarize_vmrk(d) ==
    LET cdata == collapse_blocks(d)
        all_trials == cdata.Rtim
        correct_trials == ByCorrect(cdata, TRUE)
        error_trials == ByCorrect(cdata, FALSE)
        cc == query(cdata, None, Some(TRUE), Some(TRUE), None)
        ce == query(cdata, None, Some(TRUE), Some(FALSE), None)
        ic == query(cdata, None, Some(FALSE), Some(TRUE), None)
        ie == query(cdata, None, Some(FALSE), Some(FALSE), None)
        vcc == PerBlock(d, Some(TRUE), Some(TRUE))
        vce == PerBlock(d, Some(FALSE), Some(TRUE))
        vec == PerBlock(d, Some(TRUE), Some(FALSE))
        vee == PerBlock(d, Some(FALSE), Some(FALSE))
        vex == PerBlock(d, None, Some(FALSE))
        vxe == PerBlock(d, Some(FALSE), None)
        fpccn == PostCount(vcc)
        fpcen == PostCount(vce)
        fpecn == PostCount(vec)
        fpeen == PostCount(vee)
        fpexn == PostCount(vex)
        fpxen == PostCount(vxe)
        fpcertm == PostMean(fpcen, vce)
        fpecrtm == PostMean(fpecn, vec)
        fpeertm == PostMean(fpeen, vee)
        fpexrtm == PostMean(fpexn, vex)
        fpxertm == PostMean(fpxen, vxe)
        r == [fcn |-> Len(correct_trials),
              fen |-> Len(error_trials),
              facc |-> PyDiv(100 * Len(correct_trials), Len(all_trials)),
              frtm |-> np_mean(all_trials),
              frtsd |-> np_std(all_trials, ddof),
              frtmc |-> np_mean(correct_trials),
              frtsdc |-> np_std(correct_trials, ddof),
              frtme |-> np_mean(error_trials),
              frtsde |-> np_std(error_trials, ddof),
              fccn |-> Len(cc),
              fcrtmc |-> np_mean(cc),
              fcrtsdc |-> np_std(cc, ddof),
              fcen |-> Len(ce),
              fcrtme |-> np_mean(ce),
              fcrtsde |-> np_std(ce, ddof),
              fcacc |-> PyDiv(100 * Len(cc), Len(cc) + Len(ce)),
              ficn |-> Len(ic),
              firtmc |-> np_mean(ic),
              firtsdc |-> np_std(ic, ddof),
              fien |-> Len(ie),
              firtme |-> np_mean(ie),
              firtsde |-> np_std(ie, ddof),
              fiacc |-> PyDiv(100 * Len(ic), Len(ic) + Len(ie)),
              fpccn |-> fpccn,
              fpcen |-> fpcen,
              fpcertm |-> fpcertm,
              fpecn |-> fpecn,
              fpecrtm |-> fpecrtm,
              fpeen |-> fpeen,
              fpeertm |-> fpeertm,
              fpexn |-> fpexn,
              fpexrtm |-> fpexrtm,
              fpxen |-> fpxen,
              fpxertm |-> fpxertm,
              faccpc |-> PyDiv(fpccn, fpccn + fpcen),
              faccpe |-> PyDiv(fpecn, fpecn + fpeen),
              fpes |-> Minus(fpeertm, fpecrtm),
              fpes2 |-> Minus(fpcertm, fpecrtm),
              fpes3 |-> Minus(fpxertm, fpexrtm),
              fan |-> Count(all_trials, LAMBDA x : x < 150),
              faen |-> Count(error_trials, LAMBDA x : x < 150),
              fscn |-> Count(cdata.Ntri, LAMBDA x : x > 3)]
        raised == SelectSeq(RaisingKeys, LAMBDA k : IsRaise(r[k]))
    IN IF raised # << >>
       THEN [status |-> "raise", error |-> "ZeroDivisionError", key |-> raised[1]]
       ELSE [status |-> "return", results |-> r]

----------------------------------------------------------------------------
\* The locals of process_vmrk before the first line (lines 323-331).
Start ==
    /\ mode = "practice"
    /\ n99 = 0
    /\ n144 = FALSE
    /\ qu = << >>
    /\ data = << >>
    /\ block = NewBlock
    /\ blocknum = 0
    /\ dblock = 0
    /\ pc = "read"
    /\ nlines = 0
    /\ gate = 0
    /\ ret = [op |-> "none"]
    /\ results = [status |-> "none"]

Init == Start /\ input = << >>

\* The history variable: 0..2 count the 99s seen, 3 = the third 99 was seen,
\* 4 = a 144 was seen after it, 5 = a 255 was seen after that 144.
GateNext(g, c) ==
    IF g < 3 THEN (IF c = 99 THEN g + 1 ELSE g)
    ELSE IF g = 3 THEN (IF c = 144 THEN 4 ELSE 3)
    ELSE IF g = 4 THEN (IF c = 255 THEN 5 ELSE 4)
    ELSE 5

\* A slip in the practice gating: the 255 that switches the mode is
\* appended to the pending window (no continue after the switch).
PracticeLine_buffers(c) ==
    /\ pc = "read"
    /\ mode = "practice"
    /\ LET m99 == IF c = 99 THEN n99 + 1 ELSE n99
           m144 == IF m99 = 3 /\ c = 144 THEN TRUE ELSE n144
           switch == m99 = 3 /\ m144 /\ c = 255
       IN /\ n99' = m99
          /\ n144' = m144
          /\ mode' = IF switch THEN "experiment" ELSE "practice"
          /\ qu' = IF switch THEN Append(qu, Trial(c, 0)) ELSE qu
    /\ nlines' = nlines + 1
    /\ gate' = GateNext(gate, c)
    /\ UNCHANGED <<data, block, blocknum, dblock, pc, input, ret, results>>

\* One stimulus line read while mode = "practice" (lines 356-366).
PracticeLine(c) ==
    /\ pc = "read"
    /\ mode = "practice"
    /\ LET m99 == IF c = 99 THEN n99 + 1 ELSE n99
           m144 == IF m99 = 3 /\ c = 144 THEN TRUE ELSE n144
       IN /\ n99' = m99
          /\ n144' = m144
          /\ mode' = IF m99 = 3 /\ m144 /\ c = 255 THEN "experiment" ELSE "practice"
    /\ nlines' = nlines + 1
    /\ gate' = GateNext(gate, c)
    /\ UNCHANGED <<qu, data, block, blocknum, dblock, pc, input, ret, results>>

\* A slip in the boundary handling: the Block is closed whether or not a
\* marker came since the last boundary (no test of dblock).
ExperimentLine_always_push(c, t) ==
    /\ pc = "read"
    /\ mode = "experiment"
    /\ LET q1 == Append(qu, Trial(c, t))
           front == SubSeq(q1, 1, Len(q1) - 1)
           last == <<q1[Len(q1)]>>
       IN IF c \in {144, 255}
          THEN /\ qu' = last
               /\ blocknum' = blocknum + 1
               /\ dblock' = 0
               /\ data' = Append(data, process_trial(front, block))
               /\ block' = NewBlock
          ELSE /\ dblock' = dblock + 1
               /\ IF c = 99
                  THEN /\ block' = process_trial(front, block)
                       /\ qu' = last
                  ELSE /\ qu' = q1
                       /\ block' = block
               /\ UNCHANGED <<blocknum, data>>
    /\ nlines' = nlines + 1
    /\ gate' = GateNext(gate, c)
    /\ UNCHANGED <<mode, n99, n144, pc, input, ret, results>>

\* One stimulus line read while mode = "experiment" (lines 368-384).
ExperimentLine(c, t) ==
    /\ pc = "read"
    /\ mode = "experiment"
    /\ LET q1 == Append(qu, Trial(c, t))
           front == SubSeq(q1, 1, Len(q1) - 1)
           last == <<q1[Len(q1)]>>
       IN IF c \in {144, 255}
          THEN IF dblock > 0
               THEN /\ qu' = last
                    /\ blocknum' = blocknum + 1
                    /\ dblock' = 0
                    /\ data' = Append(data, process_trial(front, block))
                    /\ block' = NewBlock
               ELSE /\ qu' = q1
                    /\ UNCHANGED <<blocknum, dblock, data, block>>
          ELSE /\ dblock' = dblock + 1
               /\ IF c = 99
                  THEN /\ block' = process_trial(front, block)
                       /\ qu' = last
                  ELSE /\ qu' = q1
                       /\ block' = block
               /\ UNCHANGED <<blocknum, data>>
    /\ nlines' = nlines + 1
    /\ gate' = GateNext(gate, c)
    /\ UNCHANGED <<mode, n99, n144, pc, input, ret, results>>

\* A slip at the end of the stream: the final process_trial is made on the
\* Block pushed last (the Block in progress not replaced by a new one).
EndOfStream_into_pushed ==
    /\ pc = "read"
    /\ IF data = << >>
       THEN block' = process_trial(qu, block) /\ data' = data
       ELSE /\ data' = [data EXCEPT ![Len(data)] = process_trial(qu, @)]
            /\ block' = block
    /\ pc' = "done"
    /\ UNCHANGED <<mode, n99, n144, qu, blocknum, dblock, nlines, input, gate, ret, results>>

\* A different end of the stream: the Block in progress is pushed after
\* the final process_trial.
EndOfStream_push ==
    /\ pc = "read"
    /\ block' = NewBlock
    /\ data' = Append(data, process_trial(qu, block))
    /\ pc' = "done"
    /\ UNCHANGED <<mode, n99, n144, qu, blocknum, dblock, nlines, input, gate, ret, results>>

\* The stream is exhausted: the final process_trial and the return
\* (lines 386-389).
EndOfStream ==
    /\ pc = "read"
    /\ block' = process_trial(qu, block)
    /\ pc' = "done"
    /\ UNCHANGED <<mode, n99, n144, qu, data, blocknum, dblock, nlines, input, gate, ret, results>>

\* The model's bounds on the stream read under Spec: a marker that does not
\* close the window is read only while the window has room.
Room(c) ==
    /\ nlines < MaxLines
    /\ (c \in {99, 144, 255} /\ (c = 99 \/ dblock > 0)) \/ Len(qu) < MaxQu

\* __main__, line 406: summarize_vmrk on the Dataset process_vmrk returned
\* (or, under SpecSum, on the Dataset at hand).
Summarize ==
    /\ pc = "done"
    /\ results' = summarize_vmrk(data)
    /\ pc' = "summarized"
    /\ UNCHANGED <<mode, n99, n144, qu, data, block, blocknum, dblock, nlines, input,
                   gate, ret>>

Next ==
    \/ \E c \in Codes : nlines < MaxLines /\ PracticeLine(c)
    \/ \E l \in Lines : Room(l.srcode) /\ ExperimentLine(l.srcode, l.time)
    \/ EndOfStream
    \/ Summarize

Spec == Init /\ [][Next]_vars

----------------------------------------------------------------------------
\* SpecA: the stream is one of the scenario-A streams.
InitA ==
    /\ Start
    /\ input \in {ScenarioA(a, b, d) : a \in StimA, b \in RespA, d \in DeltaA}

ReadInput ==
    /\ nlines < Len(input)
    /\ LET l == input[nlines + 1]
       IN PracticeLine(l.srcode) \/ ExperimentLine(l.srcode, l.time)

EndOfInput == nlines = Len(input) /\ EndOfStream

NextA == ReadInput \/ EndOfInput

SpecA == InitA /\ [][NextA]_vars

----------------------------------------------------------------------------
\* SpecTrials: process_vmrk on a stream of whole trials, then summarize_vmrk
\* on the Dataset it returned.  The stream is 99, 99, 99, 144, 255 and then
\* trials 99, stimulus, response, with a 144 after any trial; it may end
\* anywhere.  A stimulus comes at time 0 and its response at 10, 75 or 1600
\* (response times 20, 150 and 3200).
PracticeRun == <<99, 99, 99, 144, 255>>
TrialStim == {1, 4}
TrialResp == {5, 7}
TrialTimes == {10, 75, 1600}

\* The lines that may come next in such a stream.
NextLines ==
    IF mode = "practice" THEN {Trial(PracticeRun[nlines + 1], 0)}
    ELSE IF qu # << >> /\ qu[Len(qu)].srcode = 99
         THEN {Trial(a, 0) : a \in TrialStim}
    ELSE IF qu # << >> /\ qu[Len(qu)].srcode \in TrialStim
         THEN {Trial(b, t) : b \in TrialResp, t \in TrialTimes}
    ELSE IF dblock > 0 THEN {Trial(99, 0), Trial(144, 0)}
    ELSE {Trial(99, 0)}

TrialLine ==
    /\ nlines < TrialLines
    /\ \E l \in NextLines : PracticeLine(l.srcode) \/ ExperimentLine(l.srcode, l.time)

NextTrials == TrialLine \/ EndOfStream \/ Summarize

SpecTrials == Init /\ [][NextTrials]_vars

----------------------------------------------------------------------------
\* SpecSum: one call of Block.query or of summarize_vmrk on a Dataset.

\* The codes of the records: stimulus 1 or 4, response 5 or 7.
SumCodes == {fromSRCodes(a, b) : a \in {1, 4}, b \in {5, 7}}

\* The Datasets: at most SumBlocks Blocks holding at most SumTrials records
\* in all.  The i-th record of the Dataset has response time 100 + 100*i, so
\* that a response time names its record, and 3 markers.
BlockLens ==
    {ls \in UNION {[1..k -> 0..SumTrials] : k \in 0..SumBlocks} : Sum(ls) <= SumTrials}
MakeBlock(cs, off, n) ==
    [Code |-> [i \in 1..n |-> cs[off + i]],
     Rtim |-> [i \in 1..n |-> 100 + 100 * (off + i)],
     Ntri |-> [i \in 1..n |-> 3]]
MakeData(ls, cs) ==
    [k \in 1..Len(ls) |-> MakeBlock(cs, Sum(SubSeq(ls, 1, k - 1)), ls[k])]
DataSets ==
    UNION {{MakeData(ls, cs) : cs \in [1..Sum(ls) -> SumCodes]} : ls \in BlockLens}

InitSum ==
    /\ mode = "experiment"
    /\ n99 = 3
    /\ n144 = TRUE
    /\ qu = << >>
    /\ data \in DataSets
    /\ block = NewBlock
    /\ blocknum = Len(data)
    /\ dblock = 0
    /\ pc = "done"
    /\ nlines = 0
    /\ input = << >>
    /\ gate = 5
    /\ ret = [op |-> "none"]
    /\ results = [status |-> "none"]

Sides == {None, Some("left"), Some("right")}
Flags == {None, Some(TRUE), Some(FALSE)}

\* b.query(...) on Block k of the Dataset, or cdata.query(...) on
\* collapse_blocks(data) for k = 0.
QueryCall(k, side, congruent, correct, lastcorrect) ==
    /\ pc = "done"
    /\ ret' = [op |-> "query", blk |-> k, side |-> side, congruent |-> congruent,
               correct |-> correct, lastcorrect |-> lastcorrect,
               out |-> query(IF k = 0 THEN collapse_blocks(data) ELSE data[k],
                             side, congruent, correct, lastcorrect)]
    /\ pc' = "queried"
    /\ UNCHANGED <<mode, n99, n144, qu, data, block, blocknum, dblock, nlines, input,
                   gate, results>>

NextSum ==
    \/ /\ pc = "done"
       /\ Len(collapse_blocks(data).Rtim) <= QueryTrials
       /\ \E k \in 0..Len(data), s \in Sides, g \in Flags, c \in Flags, l \in Flags :
             QueryCall(k, s, g, c, l)
    \/ Summarize

SpecSum == InitSum /\ [][NextSum]_vars

----------------------------------------------------------------------------
\* SpecFn: one call of process_trial(qu, block), or one call of
\* block.filter_outliers(low, high) followed by a second call with the same
\* bounds, on any window and any Block.

\* The markers of a window: a 99, stimuli 1 and 4, responses 6 and 7, at
\* times that give response times 150, 3200, 0 and negative ones.
FnMarkers == {Trial(99, 0), Trial(1, 0), Trial(4, 75), Trial(6, 75), Trial(7, 1600)}
Windows == UNION {[1..n -> FnMarkers] : n \in 0..MaxWin}

\* The Blocks: at most FnRecs records, with any response times (a Block
\* on which filter_outliers was never called).
FnTimes == {100, 150, 3001}
FnBlocks ==
    UNION {{[Code |-> [i \in 1..n |-> fromSRCodes(1, 5)], Rtim |-> rs, Ntri |-> [i \in 1..n |-> 3]] :
              rs \in [1..n -> FnTimes]} : n \in 0..FnRecs}

\* The bounds given to filter_outliers.
FnLows == {100, 150}
FnHighs == {150, 3000}

InitFn ==
    /\ mode = "experiment"
    /\ n99 = 3
    /\ n144 = TRUE
    /\ qu \in Windows
    /\ data = << >>
    /\ block \in FnBlocks
    /\ blocknum = 0
    /\ dblock = 0
    /\ pc = "call"
    /\ nlines = 0
    /\ input = << >>
    /\ gate = 5
    /\ ret = [op |-> "none"]
    /\ results = [status |-> "none"]

\* process_trial(qu, block).  ret keeps the locals of the call: whether it
\* returned early and, if not, code, rt and len(qu) as appended (lines
\* 145-152), and the Block as it was before the call.
TrialCall ==
    /\ pc = "call"
    /\ block' = process_trial(qu, block)
    /\ ret' = IF Len(qu) < 3 \/ qu[1].srcode # 99
              THEN [op |-> "process_trial", early |-> TRUE, before |-> block]
              ELSE [op |-> "process_trial", early |-> FALSE, before |-> block,
                    code |-> fromSRCodes(qu[2].srcode, qu[3].srcode),
                    rt |-> ResponseTime(qu),
                    ntri |-> Len(qu)]
    /\ pc' = "called"
    /\ UNCHANGED <<mode, n99, n144, qu, data, blocknum, dblock, nlines, input, gate,
                   results>>

\* block.filter_outliers(lo, hi) on a Block.
FilterCall(lo, hi) ==
    /\ pc = "call"
    /\ block' = filter_outliers(block, lo, hi)
    /\ ret' = [op |-> "filter_outliers", low |-> lo, high |-> hi, orig |-> block,
               before |-> block, calls |-> 1]
    /\ pc' = "filtered"
    /\ UNCHANGED <<mode, n99, n144, qu, data, blocknum, dblock, nlines, input, gate,
                   results>>

\* block.filter_outliers(lo, hi) once more, with the bounds of the call
\* before.
FilterAgain ==
    /\ pc = "filtered"
    /\ block' = filter_outliers(block, ret.low, ret.high)
    /\ ret' = [op |-> "filter_outliers", low |-> ret.low, high |-> ret.high,
               orig |-> ret.orig, before |-> block, calls |-> 2]
    /\ pc' = "refiltered"
    /\ UNCHANGED <<mode, n99, n144, qu, data, blocknum, dblock, nlines, input, gate,
                   results>>

NextFn ==
    \/ TrialCall
    \/ \E lo \in FnLows, hi \in FnHighs : FilterCall(lo, hi)
    \/ FilterAgain

SpecFn == InitFn /\ [][NextFn]_vars

----------------------------------------------------------------------------
\* Claims about process_vmrk and process_trial.

\* C1 (as claimed): process_vmrk is in experiment mode exactly when the
\* stream read so far holds a 255 after a 144 after the third 99, whatever
\* else lies in between (further 99s included).
C1_SwitchOnGate == (mode = "experiment") <=> (gate = 5)

\* C2: every record retained in the current Block or in a Block of the
\* Dataset has 150 <= response time <= 3000.
InRange(b) == \A i \in 1..Len(b.Rtim) : 150 <= b.Rtim[i] /\ b.Rtim[i] <= 3000
C2_RetainedInRange ==
    /\ InRange(block)
    /\ \A k \in 1..Len(data) : InRange(data[k])
    /\ Len(block.Code) = Len(block.Rtim) /\ Len(block.Ntri) = Len(block.Rtim)

\* A pushed Block holds a record, and the final process_trial inserted a
\* record with a time above 3000 into the current Block, which holds none.
C2_Witness ==
    /\ Len(data) >= 1 /\ Len(data[1].Rtim) = 1
    /\ pc = "done" /\ Len(qu) = 3 /\ qu[1].srcode = 99
    /\ 2 * (qu[3].time - qu[2].time) > 3000
    /\ block.Rtim = << >>

\* C5 (as claimed): on a scenario-A stream the returned Dataset holds
\* exactly one record, with code classify(a, b) and response time 2*d.
StreamA == input[7].srcode
StreamB == input[8].srcode
StreamD == input[8].time - input[7].time
\* classify(a, b) as the specification states it (section 3, Code).
Classified ==
    [side |-> IF StreamA = 1 \/ StreamA = 2 THEN "left" ELSE "right",
     congruent |-> (StreamA = 1 \/ StreamA = 3),
     correct |-> (StreamB = 5 \/ StreamB = 6)]
C5_OneRecordAlways ==
    pc = "done" =>
        /\ Len(data) = 1
        /\ data[1].Code = <<Classified>>
        /\ data[1].Rtim = <<2 * StreamD>>

\* C5 (amended): the returned Dataset holds exactly one Block; that Block
\* holds the one record (code classify(a, b), time 2*d) when
\* 150 <= 2*d <= 3000 and no record otherwise.
C5_OneRecordIfInRange ==
    pc = "done" =>
        /\ Len(data) = 1
        /\ IF 150 <= 2 * StreamD /\ 2 * StreamD <= 3000
           THEN /\ data[1].Code = <<Classified>>
                /\ data[1].Rtim = <<2 * StreamD>>
           ELSE data[1].Code = << >> /\ data[1].Rtim = << >>

\* The spec's own example a=1, b=5, d=10 has been processed to the end and
\* the returned Block is empty.
C5_Witness ==
    /\ pc = "done"
    /\ input = ScenarioA(1, 5, 10)
    /\ Len(data) = 1 /\ data[1].Rtim = << >>

\* C10: a process_trial call on a window with fewer than 3 markers or not
\* starting with 99 leaves the target Block as it was: the call made for a
\* 99 line and the final call leave the current Block unchanged, and the
\* call made for a block boundary pushes the current Block as it was.
BadWindow(q) == Len(q) < 3 \/ q[1].srcode # 99
C10_BadWindowStep ==
    /\ \A l \in Lines :
          (ExperimentLine(l.srcode, l.time) /\ BadWindow(qu)) =>
              IF l.srcode = 99 THEN block' = block
              ELSE (l.srcode \in {144, 255} /\ dblock > 0) => data' = Append(data, block)
    /\ (EndOfStream /\ BadWindow(qu)) => block' = block
C10_BadWindowDropped == [][C10_BadWindowStep]_vars

\* Scenario B at the end of the stream: the window [99, 1] was flushed into
\* a Block that holds a record, and the Block still holds just that record.
C10_Witness ==
    /\ pc = "done"
    /\ Len(qu) = 2 /\ qu[1].srcode = 99 /\ qu[2].srcode = 1
    /\ Len(block.Rtim) = 1

\* C13: in practice mode the pending window, the current Block and the
\* Dataset are empty, and the step that switches to experiment mode leaves
\* the pending window empty (the 255 is not buffered).
PracticeEmpty == mode = "practice" => (qu = << >> /\ block = NewBlock /\ data = << >>)
SwitchStep == (mode = "practice" /\ mode' = "experiment") => qu' = << >>
C13_PracticeDiscards == []PracticeEmpty /\ [][SwitchStep]_vars

\* The fifth line was the 255 that switched the mode, and the pending
\* window is empty.
C13_Witness ==
    /\ mode = "experiment" /\ nlines = 5 /\ pc = "read"
    /\ qu = << >> /\ data = << >>

\* assemble(window) into Block b as the specification states it (sections
\* 3 and 4.2), for a Block whose records are within 150..3000.
Boundary == {144, 255}
Assembled(q, b) ==
    IF Len(q) >= 3 /\ q[1].srcode = 99
       /\ 150 <= 2 * (q[3].time - q[2].time) /\ 2 * (q[3].time - q[2].time) <= 3000
    THEN [Code |-> Append(b.Code, [side |-> IF q[2].srcode \in {1, 2} THEN "left" ELSE "right",
                                   congruent |-> q[2].srcode \in {1, 3},
                                   correct |-> q[3].srcode \in {5, 6}]),
          Rtim |-> Append(b.Rtim, 2 * (q[3].time - q[2].time)),
          Ntri |-> Append(b.Ntri, Len(q))]
    ELSE b

\* C14: in experiment mode a 144 or 255 read while dblock = 0 pushes no
\* Block and leaves blocknum and the current Block unchanged; read while
\* dblock > 0 it assembles the window without it into the current Block,
\* pushes that one Block, adds one to blocknum, sets dblock to 0, leaves the
\* window holding just that marker and starts an empty Block.  A Block is
\* pushed only when the window holds a marker other than 144 and 255.
C14_BoundaryStep ==
    /\ \A l \in Lines :
          (l.srcode \in Boundary /\ ExperimentLine(l.srcode, l.time)) =>
              IF dblock = 0
              THEN data' = data /\ blocknum' = blocknum /\ block' = block /\ dblock' = 0
              ELSE /\ data' = Append(data, Assembled(qu, block))
                   /\ blocknum' = blocknum + 1
                   /\ dblock' = 0
                   /\ qu' = <<l>>
                   /\ block' = NewBlock
    /\ Len(data') > Len(data) =>
          /\ Len(data') = Len(data) + 1
          /\ \E i \in 1..Len(qu) : qu[i].srcode \notin Boundary
C14_BoundaryPushes == [][C14_BoundaryStep]_vars

\* A boundary marker closed a Block and the next line, a boundary marker
\* again, closed none.
C14_Witness ==
    /\ mode = "experiment" /\ pc = "read"
    /\ Len(data) = 1 /\ blocknum = 1 /\ dblock = 0
    /\ Len(qu) = 2 /\ qu[1].srcode \in Boundary /\ qu[2].srcode \in Boundary

\* C15: the Dataset only grows by appending: no step changes a Block that
\* is already in it.
C15_PushedStep == Len(data') >= Len(data) /\ SubSeq(data', 1, Len(data)) = data
C15_PushedFrozen == [][C15_PushedStep]_vars

\* After a Block with a record was pushed, a further record was assembled
\* by the final process_trial, into the new Block.
C15_Witness ==
    /\ pc = "done"
    /\ Len(data) = 1 /\ Len(data[1].Rtim) = 1
    /\ Len(qu) = 3 /\ Len(block.Rtim) = 1

\* C18: the Dataset holds as many Blocks as blocknum counts (one per 144
\* or 255 read in experiment mode with dblock > 0); a step that assembles a
\* record into the Block in progress leaves the Dataset as it is, and so
\* does the end of the stream: the Block in progress is not returned.
C18_LengthIsBlocknum == Len(data) = blocknum
C18_InProgressStep ==
    /\ Len(block'.Rtim) > Len(block.Rtim) => data' = data
    /\ (pc = "read" /\ pc' = "done") => (data' = data /\ blocknum' = blocknum)
C18_InProgressNotReturned == []C18_LengthIsBlocknum /\ [][C18_InProgressStep]_vars

\* process_vmrk returned an empty Dataset although its final process_trial
\* assembled a record from the window [99, stimulus, response].
C18_Witness ==
    /\ pc = "done" /\ data = << >> /\ blocknum = 0
    /\ Len(qu) = 3 /\ qu[1].srcode = 99 /\ 2 * (qu[3].time - qu[2].time) = 150
    /\ Len(block.Rtim) >= 1

\* C20: in a mapping summarize_vmrk returns for a Dataset that
\* process_vmrk produced, the anticipatory-response counts fan and faen
\* are 0, and no record of the Dataset has a response time under 150.
C20_NoAnticipatory ==
    (pc = "summarized" /\ results.status = "return") =>
        /\ results.results.fan = 0
        /\ results.results.faen = 0
        /\ \A k \in 1..Len(data) : \A i \in 1..Len(data[k].Rtim) : data[k].Rtim[i] >= 150

\* A mapping was returned for a stream of five trials and a closing 144,
\* of which four trials were retained in the one Block of the Dataset.
C20_Witness ==
    /\ pc = "summarized" /\ results.status = "return"
    /\ nlines = 21 /\ qu = <<Trial(144, 0)>>
    /\ Len(data) = 1 /\ Len(data[1].Rtim) = 4
    /\ results.results.fan = 0

----------------------------------------------------------------------------
\* Claims about Block.query, collapse_blocks and summarize_vmrk (SpecSum).

\* The Block a query call was made on.
Target == IF ret.blk = 0 THEN collapse_blocks(data) ELSE data[ret.blk]
Range(f) == {f[i] : i \in DOMAIN f}
\* The side/congruent/correct predicates of the call, on a record's code.
Matches(c) ==
    /\ (ret.side = None \/ c.side = ret.side[1])
    /\ (ret.congruent = None \/ c.congruent = ret.congruent[1])
    /\ (ret.correct = None \/ c.correct = ret.correct[1])
\* The response times a query call was to return from Block b if only
\* the side/congruent/correct predicates applied, in record order.
Matching(b) ==
    Pick(b.Rtim, SelectSeq([i \in 1..Len(b.Rtim) |-> i], LAMBDA i : Matches(b.Code[i])))
RECURSIVE Concat(_)
Concat(ss) == IF ss = << >> THEN << >> ELSE ss[1] \o Concat(Tail(ss))
NoTrials(d) == \A k \in 1..Len(d) : d[k].Rtim = << >>

Following(d, c, x) ==
    Sum([k \in 1..Len(d) |->
           Cardinality({j \in 2..Len(d[k].Code) :
                          /\ (c = None \/ d[k].Code[j].correct = c[1])
                          /\ d[k].Code[j - 1].correct = x})])

\* C4 (as claimed): in a returned mapping each post-X count is the number
\* of records with a predecessor in their Block that satisfy the count's
\* correctness predicate and whose predecessor has correct = X.
C4_PostCountsExact ==
    results.status = "return" =>
        /\ results.results.fpccn = Following(data, Some(TRUE), TRUE)
        /\ results.results.fpcen = Following(data, Some(FALSE), TRUE)
        /\ results.results.fpecn = Following(data, Some(TRUE), FALSE)
        /\ results.results.fpeen = Following(data, Some(FALSE), FALSE)
        /\ results.results.fpexn = Following(data, None, FALSE)

\* C6: a query call without lastcorrect on collapse_blocks(data) returns the
\* concatenation, in Block order, of what the same predicates select from
\* each Block, which is also the concatenation of the per-Block queries.
C6_CollapsedIsConcat ==
    (ret.op = "query" /\ ret.blk = 0 /\ ret.lastcorrect = None) =>
        /\ ret.out = Concat([k \in 1..Len(data) |-> Matching(data[k])])
        /\ ret.out = Concat([k \in 1..Len(data) |->
                               query(data[k], ret.side, ret.congruent, ret.correct, None)])
        /\ Len(ret.out) = Sum([k \in 1..Len(data) |->
                               Len(query(data[k], ret.side, ret.congruent, ret.correct, None))])

\* query(correct=True) on the collapsed view of two non-empty Blocks returned
\* a time of each Block.
C6_Witness ==
    /\ ret.op = "query" /\ ret.blk = 0 /\ ret.lastcorrect = None
    /\ ret.correct = Some(TRUE) /\ ret.side = None /\ ret.congruent = None
    /\ Len(data) = 2 /\ Len(data[1].Rtim) >= 1 /\ Len(data[2].Rtim) >= 1
    /\ ret.out = <<data[1].Rtim[1], data[2].Rtim[1]>>

\* C7: on a Dataset without trials summarize_vmrk raises at the accuracy
\* facc and returns no mapping.
C7_NoTrialsRaises ==
    (pc = "summarized" /\ NoTrials(data)) =>
        (results.status = "raise" /\ results.key = "facc")

\* summarize_vmrk was called on two empty Blocks and raised.
C7_Witness ==
    /\ pc = "summarized" /\ Len(data) = 2 /\ NoTrials(data)
    /\ results.status = "raise"

\* A Dataset with at least one trial and no correct trial.
AllErrors(d) ==
    /\ ~NoTrials(d)
    /\ \A k \in 1..Len(d) : \A j \in 1..Len(d[k].Code) : ~d[k].Code[j].correct
\* C8: on a Dataset with a trial and no correct trial summarize_vmrk raises
\* at one of the accuracies fcacc, fiacc, faccpc and returns no mapping.
C8_AllErrorsRaises ==
    (pc = "summarized" /\ AllErrors(data)) =>
        (results.status = "raise" /\ results.key \in {"fcacc", "fiacc", "faccpc"})

\* summarize_vmrk was called on a Dataset of error trials, congruent and
\* incongruent, and raised at the post-correct accuracy.
C8_Witness ==
    /\ pc = "summarized" /\ AllErrors(data)
    /\ \E k \in 1..Len(data) : \E j \in 1..Len(data[k].Code) : data[k].Code[j].congruent
    /\ \E k \in 1..Len(data) : \E j \in 1..Len(data[k].Code) : ~data[k].Code[j].congruent
    /\ results.status = "raise" /\ results.key = "faccpc"

\* The keys of the mapping that hold a mean or a standard deviation.
MeanStdKeys ==
    {"frtm", "frtsd", "frtmc", "frtsdc", "frtme", "frtsde", "fcrtmc", "fcrtsdc",
     "fcrtme", "fcrtsde", "firtmc", "firtsdc", "firtme", "firtsde"}
\* C9 (as claimed): a returned mapping holds no nan mean or standard
\* deviation: a mean or standard deviation over an empty list is an error.
C9_EmptyMeanRaises ==
    results.status = "return" => \A k \in MeanStdKeys : ~IsNaN(results.results[k])

\* C16: on a query call with correct = c and lastcorrect = x (side and
\* congruent not given), a record with a predecessor in the Block gives its
\* response time exactly when its correct is c and its predecessor's is x;
\* the times come in record order; on a Block of an error record followed
\* by a correct one, query(correct=True, lastcorrect=False) returns just
\* the second record's time.
C16_PostQuery ==
    (ret.op = "query" /\ ret.side = None /\ ret.congruent = None
       /\ ret.correct # None /\ ret.lastcorrect # None) =>
        /\ \A j \in 2..Len(Target.Rtim) :
              Target.Rtim[j] \in Range(ret.out) <=>
                  (Target.Code[j].correct = ret.correct[1]
                     /\ Target.Code[j - 1].correct = ret.lastcorrect[1])
        /\ \A i, k \in 1..Len(ret.out) : i < k => ret.out[i] < ret.out[k]
        /\ Range(ret.out) \subseteq Range(Target.Rtim)
        /\ (Len(Target.Rtim) = 2 /\ ~Target.Code[1].correct /\ Target.Code[2].correct
              /\ ret.correct = Some(TRUE) /\ ret.lastcorrect = Some(FALSE)) =>
                  ret.out = <<Target.Rtim[2]>>

\* Scenario C: query(correct=True, lastcorrect=False) was called on a Block
\* of an error record followed by a correct one.
C16_Witness ==
    /\ ret.op = "query" /\ ret.blk = 1 /\ ret.side = None /\ ret.congruent = None
    /\ ret.correct = Some(TRUE) /\ ret.lastcorrect = Some(FALSE)
    /\ Len(data[1].Rtim) = 2 /\ ~data[1].Code[1].correct /\ data[1].Code[2].correct
    /\ Len(ret.out) = 1

\* The post-X means of summarize_vmrk: the key of the mean, the key of its
\* count, and the correct and lastcorrect arguments of its queries.
PostMeans ==
    {<<"fpcertm", "fpcen", Some(FALSE), Some(TRUE)>>,
     <<"fpecrtm", "fpecn", Some(TRUE), Some(FALSE)>>,
     <<"fpeertm", "fpeen", Some(FALSE), Some(FALSE)>>,
     <<"fpexrtm", "fpexn", None, Some(FALSE)>>,
     <<"fpxertm", "fpxen", Some(FALSE), None>>}
\* The sum over the Blocks of sum(query[1:]).
TailSum(d, c, x) ==
    Sum([k \in 1..Len(d) |->
           LET v == query(d[k], None, None, c, x)
           IN Sum([i \in 1..(Len(v) - 1) |-> v[i + 1]])])

\* C17: in a returned mapping, a post-X mean whose count is 0 is 0, and one
\* whose count is positive is the sum over the Blocks of sum(query[1:])
\* divided by the count; summarize_vmrk raises at no post-X mean.
C17_PostMeans ==
    /\ results.status = "return" =>
          \A m \in PostMeans :
              results.results[m[1]] =
                  IF results.results[m[2]] = 0 THEN [num |-> 0, den |-> 1]
                  ELSE [num |-> TailSum(data, m[3], m[4]), den |-> results.results[m[2]]]
    /\ results.status = "raise" => \A m \in PostMeans : results.key # m[1]

\* A returned mapping with no post-error correct trial counted (mean 0) and
\* a post-correct error trial counted (a mean of its time).
C17_Witness ==
    /\ results.status = "return"
    /\ results.results.fpecn = 0 /\ results.results.fpecrtm = [num |-> 0, den |-> 1]
    /\ results.results.fpcen > 0 /\ results.results.fpcertm.num > 0

\* The denominators of the five ratios of summarize_vmrk, by key.
AllCodes(d) == collapse_blocks(d).Code
Denominator(d) ==
    [facc |-> Len(AllCodes(d)),
     fcacc |-> Cardinality({i \in 1..Len(AllCodes(d)) : AllCodes(d)[i].congruent}),
     fiacc |-> Cardinality({i \in 1..Len(AllCodes(d)) : ~AllCodes(d)[i].congruent}),
     faccpc |-> PostCount(PerBlock(d, Some(TRUE), Some(TRUE)))
                  + PostCount(PerBlock(d, Some(FALSE), Some(TRUE))),
     faccpe |-> PostCount(PerBlock(d, Some(TRUE), Some(FALSE)))
                  + PostCount(PerBlock(d, Some(FALSE), Some(FALSE)))]
Ratios == {"facc", "fcacc", "fiacc", "faccpc", "faccpe"}
NoErrorTrial(d) == \A i \in 1..Len(AllCodes(d)) : AllCodes(d)[i].correct
FirstZero(d) ==
    IF Denominator(d).facc = 0 THEN "facc"
    ELSE IF Denominator(d).fcacc = 0 THEN "fcacc"
    ELSE IF Denominator(d).fiacc = 0 THEN "fiacc"
    ELSE IF Denominator(d).faccpc = 0 THEN "faccpc"
    ELSE "faccpe"

\* C19 (as claimed): a mapping is returned only if the five denominators
\* are nonzero, and on a Dataset with trials, none of them an error trial,
\* summarize_vmrk raises at the post error accuracy faccpe.
C19_NoErrorRaisesAtFaccpe ==
    /\ results.status = "return" => \A k \in Ratios : Denominator(data)[k] # 0
    /\ (pc = "summarized" /\ NoErrorTrial(data) /\ ~NoTrials(data)) =>
          (results.status = "raise" /\ results.key = "faccpe")

\* C19 (amended): a mapping is returned only if the five denominators are
\* nonzero; otherwise summarize_vmrk raises at the first of facc, fcacc,
\* fiacc, faccpc, faccpe whose denominator is 0.  On a Dataset without
\* error trial the denominator of faccpe is 0, so no mapping is returned,
\* and the error is raised at faccpe when the other four are nonzero.
C19_NoErrorRaises ==
    pc = "summarized" =>
        /\ results.status = "return" <=> \A k \in Ratios : Denominator(data)[k] # 0
        /\ results.status = "raise" => results.key = FirstZero(data)
        /\ NoErrorTrial(data) =>
              /\ Denominator(data).faccpe = 0
              /\ results.status = "raise"
              /\ (\A k \in Ratios \ {"faccpe"} : Denominator(data)[k] # 0)
                    => results.key = "faccpe"

\* summarize_vmrk was called on a Dataset of correct trials, congruent and
\* incongruent, and raised at faccpe.
C19_Witness ==
    /\ pc = "summarized" /\ NoErrorTrial(data) /\ Len(AllCodes(data)) >= 2
    /\ results.status = "raise" /\ results.key = "faccpe"

----------------------------------------------------------------------------
\* Claims about process_trial and Block.filter_outliers as functions (SpecFn).

\* classify(a, b) as the specification states it (section 3, Code).
Classify(a, b) ==
    [side |-> IF a = 1 \/ a = 2 THEN "left" ELSE "right",
     congruent |-> (a = 1 \/ a = 3),
     correct |-> (b = 5 \/ b = 6)]
ValidWindow(q) == Len(q) >= 3 /\ q[1].srcode = 99
LastRecord(b) ==
    [code |-> b.Code[Len(b.Code)], rt |-> b.Rtim[Len(b.Rtim)], ntri |-> b.Ntri[Len(b.Ntri)]]

\* C11: on a window of 3 or more markers starting with 99, process_trial
\* builds the record with code classify(window[1], window[2]), response
\* time 2 * (window[2].time - window[1].time), negative ones included, and
\* trial size len(window); the markers after the third change nothing else;
\* and the record, when its time is within 150..3000, ends up last in the
\* Block.
C11_RecordBuilt ==
    (ret.op = "process_trial" /\ ValidWindow(qu)) =>
        /\ ~ret.early
        /\ ret.code = Classify(qu[2].srcode, qu[3].srcode)
        /\ ret.rt = qu[3].time + qu[3].time - qu[2].time - qu[2].time
        /\ ret.ntri = Len(qu)
        /\ (150 <= ret.rt /\ ret.rt <= 3000) =>
              /\ Len(block.Rtim) >= 1
              /\ LastRecord(block) = [code |-> ret.code, rt |-> ret.rt, ntri |-> ret.ntri]

\* process_trial was called on a window of 4 markers whose response came
\* before its stimulus: the record built has a negative response time.
C11_Witness ==
    /\ ret.op = "process_trial" /\ ValidWindow(qu) /\ Len(qu) = 4
    /\ ~ret.early /\ ret.rt < 0 /\ ret.ntri = 4

\* C12: a second filter_outliers call with the same bounds leaves the
\* Block's three lists as the first call left them.
C12_FilterIdempotent ==
    (ret.op = "filter_outliers" /\ ret.calls = 2) => block = ret.before

\* The second call was made on a Block of two records from which the
\* first call with bounds 150, 3000 had removed the first one.
C12_Witness ==
    /\ ret.op = "filter_outliers" /\ ret.calls = 2
    /\ ret.low = 150 /\ ret.high = 3000
    /\ ret.orig.Rtim = <<3001, 150>>
    /\ block.Rtim = <<150>>

====
